---- MODULE Spec2Model ----
(***************************************************************************)
(* Model of the K'UHUL Atomic Expert model builder                         *)
(* (src/cluster/model_builder.py): the precision table, tensor and expert  *)
(* specs, the quantization engine, and the cluster allocation planner      *)
(* (memory-string parsing, wildcard expert-pattern expansion, per-node     *)
(* allocation and the deployment plan).                                    *)
(*                                                                         *)
(* Python strings that the code inspects character by character (memory    *)
(* strings, expert ids, patterns) are sequences of one-character strings.  *)
(* Python integers are unbounded; byte counts are therefore kept as        *)
(* little-endian sequences of limbs in radix 1024 (<<>> is zero, the top   *)
(* limb is never 0), so that 1024^k and sums of budgets do not overflow.   *)
(***************************************************************************)
EXTENDS Integers, Sequences, FiniteSets, TLC

VARIABLES
    mem_str,        \* parse_memory: the argument
    mem_result,     \* parse_memory: what the call returned or raised
    pattern,        \* expand_expert_pattern: the pattern argument
    registry,       \* expand_expert_pattern: the all_experts argument
    matched,        \* expand_expert_pattern: what the call returned
    config,         \* ClusterBuilder.config and .expert_config
    pc,             \* position inside generate_deployment_plan
    all_experts,    \* build_allocation: local all_experts
    allocations,    \* build_allocation: local allocations
    plan,           \* generate_deployment_plan: local plan
    total_used,     \* generate_deployment_plan: local total_used
    total_budget,   \* generate_deployment_plan: local total_budget
    results,        \* what each finished call of generate_deployment_plan gave
    in_values,      \* quantize_tensor: the values argument
    in_precision,   \* quantize_tensor, compute_scale_zp: the precision argument
    quantized,      \* quantize_tensor: what the call returned or raised
    in_min_val,     \* compute_scale_zp: the min_val argument
    in_max_val,     \* compute_scale_zp: the max_val argument
    scale_zp,       \* compute_scale_zp: what the call returned or raised
    in_quantized,   \* _pack_values: the values argument
    packed_out,     \* _pack_values: what the call returned or raised
    tensor,         \* a TensorSpec
    described,      \* TensorSpec.to_dict: what the call returned
    measured,       \* Precision: the two properties read off tensor.precision
    builder_config, \* ExpertBuilder.config
    in_expert_id,   \* build_expert: the expert_id argument
    built           \* what each call of build_expert returned

vars == <<mem_str, mem_result, pattern, registry, matched, config, pc,
          all_experts, allocations, plan, total_used, total_budget, results,
          in_values, in_precision, quantized, in_min_val, in_max_val, scale_zp,
          in_quantized, packed_out, tensor, described, measured,
          builder_config, in_expert_id, built>>

memVars == <<mem_str, mem_result>>
expandVars == <<pattern, registry, matched>>
planVars == <<config, pc, all_experts, allocations, plan, total_used,
              total_budget, results>>
quantVars == <<in_values, in_precision, quantized, in_min_val, in_max_val,
               scale_zp, in_quantized, packed_out>>
tensorVars == <<tensor, described, measured>>
builderVars == <<builder_config, in_expert_id, built>>

----------------------------------------------------------------------------
(* Unbounded non-negative integers (Python int) in radix 1024.             *)

Kilo == 1024

RECURSIVE BigNorm(_)
BigNorm(b) ==
    IF b = <<>> THEN <<>>
    ELSE IF b[Len(b)] = 0 THEN BigNorm(SubSeq(b, 1, Len(b) - 1))
    ELSE b

RECURSIVE BigOfInt(_)
BigOfInt(n) ==
    IF n = 0 THEN <<>> ELSE <<n % Kilo>> \o BigOfInt(n \div Kilo)

BigLimb(b, i) == IF i <= Len(b) THEN b[i] ELSE 0

RECURSIVE BigAddFrom(_, _, _, _)
BigAddFrom(a, b, i, carry) ==
    IF i > Len(a) /\ i > Len(b)
    THEN BigOfInt(carry)
    ELSE LET s == BigLimb(a, i) + BigLimb(b, i) + carry
         IN  <<s % Kilo>> \o BigAddFrom(a, b, i + 1, s \div Kilo)

\* a + b
BigAdd(a, b) == BigAddFrom(a, b, 1, 0)

RECURSIVE BigMulAddFrom(_, _, _, _)
BigMulAddFrom(a, m, i, carry) ==
    IF i > Len(a)
    THEN BigOfInt(carry)
    ELSE LET s == a[i] * m + carry
         IN  <<s % Kilo>> \o BigMulAddFrom(a, m, i + 1, s \div Kilo)

\* a * m + c for small m and c
BigMulAdd(a, m, c) == BigNorm(BigMulAddFrom(a, m, 1, c))

\* a * 1024^k
BigShift(a, k) == IF a = <<>> THEN <<>> ELSE [i \in 1..k |-> 0] \o a

RECURSIVE BigDivFrom(_, _, _, _)
BigDivFrom(a, d, i, rem) ==
    IF i = 0 THEN <<>>
    ELSE LET cur == rem * Kilo + a[i]
         IN  BigDivFrom(a, d, i - 1, cur % d) \o <<cur \div d>>

\* floor(a / d) for small d > 0
BigDivSmall(a, d) == BigNorm(BigDivFrom(a, d, Len(a), 0))

RECURSIVE BigGtFrom(_, _, _)
BigGtFrom(a, b, i) ==
    IF i = 0 THEN FALSE
    ELSE IF a[i] # b[i] THEN a[i] > b[i]
    ELSE BigGtFrom(a, b, i - 1)

\* a > b
BigGt(a, b) ==
    \/ Len(a) > Len(b)
    \/ Len(a) = Len(b) /\ BigGtFrom(a, b, Len(a))

RECURSIVE BigModFrom(_, _, _, _)
BigModFrom(a, d, i, rem) ==
    IF i = 0 THEN rem ELSE BigModFrom(a, d, i - 1, (rem * Kilo + a[i]) % d)

\* a mod d for small d > 0
BigModSmall(a, d) == BigModFrom(a, d, Len(a), 0)

RECURSIVE BigSubFrom(_, _, _, _)
BigSubFrom(a, b, i, borrow) ==
    IF i > Len(a) THEN <<>>
    ELSE LET s == a[i] - BigLimb(b, i) - borrow
         IN  <<IF s < 0 THEN s + Kilo ELSE s>>
             \o BigSubFrom(a, b, i + 1, IF s < 0 THEN 1 ELSE 0)

\* a - b for a >= b
BigSub(a, b) == BigNorm(BigSubFrom(a, b, 1, 0))

RECURSIVE Pow2(_)
\* 1 << n for n below 31
Pow2(n) == IF n = 0 THEN 1 ELSE 2 * Pow2(n - 1)

\* 1 << n
BigPow2(n) == [i \in 1..(n \div 10) |-> 0] \o <<Pow2(n % 10)>>

RECURSIVE BigToInt(_)
\* the value of a, for a below 2^31
BigToInt(a) == IF a = <<>> THEN 0 ELSE a[1] + Kilo * BigToInt(Tail(a))

RECURSIVE Log2(_)
\* n.bit_length() - 1 for a small n >= 1
Log2(n) == IF n <= 1 THEN 0 ELSE 1 + Log2(n \div 2)

\* a.bit_length() - 1 for a >= 1
BigLog2(a) == 10 * (Len(a) - 1) + Log2(a[Len(a)])

\* round(a / d) for a >= 0 and small d > 0: to the nearest integer, a tie
\* to the even one
RoundHalfEven(a, d) ==
    LET q == BigDivSmall(a, d)
        r == BigModSmall(a, d)
    IN  IF 2 * r > d \/ (2 * r = d /\ BigModSmall(q, 2) = 1)
        THEN BigAdd(q, <<1>>)
        ELSE q

Abs(n) == IF n < 0 THEN 0 - n ELSE n

----------------------------------------------------------------------------
(* Characters and the string methods the code calls.                       *)

Digits == <<"0", "1", "2", "3", "4", "5", "6", "7", "8", "9">>
LowerCase == <<"a", "b", "c", "d", "e", "f", "g", "h", "i", "j", "k", "l", "m",
               "n", "o", "p", "q", "r", "s", "t", "u", "v", "w", "x", "y", "z">>
UpperCase == <<"A", "B", "C", "D", "E", "F", "G", "H", "I", "J", "K", "L", "M",
               "N", "O", "P", "Q", "R", "S", "T", "U", "V", "W", "X", "Y", "Z">>

IsDigit(c) == \E i \in 1..Len(Digits) : Digits[i] = c
DigitVal(c) == (CHOOSE i \in 1..Len(Digits) : Digits[i] = c) - 1
IsSpace(c) == c = " "

\* str.upper(), one character
UpperChar(c) ==
    IF \E i \in 1..Len(LowerCase) : LowerCase[i] = c
    THEN UpperCase[CHOOSE i \in 1..Len(LowerCase) : LowerCase[i] = c]
    ELSE c

\* str.upper()
Upper(s) == [i \in 1..Len(s) |-> UpperChar(s[i])]

RECURSIVE LStrip(_)
LStrip(s) ==
    IF s # <<>> /\ IsSpace(s[1]) THEN LStrip(Tail(s)) ELSE s

RECURSIVE RStrip(_)
RStrip(s) ==
    IF s # <<>> /\ IsSpace(s[Len(s)])
    THEN RStrip(SubSeq(s, 1, Len(s) - 1))
    ELSE s

\* str.strip()
Strip(s) == RStrip(LStrip(s))

\* str.endswith(suffix)
EndsWith(s, suffix) ==
    /\ Len(s) >= Len(suffix)
    /\ SubSeq(s, Len(s) - Len(suffix) + 1, Len(s)) = suffix

\* str.startswith(prefix)
StartsWith(s, prefix) ==
    /\ Len(s) >= Len(prefix)
    /\ SubSeq(s, 1, Len(prefix)) = prefix

\* s[:-n]
DropLast(s, n) == SubSeq(s, 1, Len(s) - n)

----------------------------------------------------------------------------
(* Results of a call: a value, or the exception it raised.                 *)

Returned(v) == [ok |-> TRUE, value |-> v, error |-> "none"]
Raised(e) == [ok |-> FALSE, value |-> <<>>, error |-> e]
Pending == [ok |-> FALSE, value |-> <<>>, error |-> "pending"]

----------------------------------------------------------------------------
(* int(str) and float(str) on the characters the model draws: digits, the  *)
(* decimal point, blanks, and letters that form no float literal (no sign, *)
(* no exponent, no underscore, no "inf"/"nan").  Both strip blanks first.  *)

AllDigits(s) == s # <<>> /\ \A i \in 1..Len(s) : IsDigit(s[i])

RECURSIVE DigitsValue(_, _)
DigitsValue(s, acc) ==
    IF s = <<>> THEN acc
    ELSE DigitsValue(Tail(s), BigMulAdd(acc, 10, DigitVal(s[1])))

\* int(s): the value, or ValueError
ParseInt(s) ==
    LET t == Strip(s)
    IN  IF AllDigits(t) THEN Returned(DigitsValue(t, <<>>))
        ELSE Raised("ValueError")

DotCount(s) == Cardinality({i \in 1..Len(s) : s[i] = "."})
DigitCount(s) == Cardinality({i \in 1..Len(s) : IsDigit(s[i])})
WithoutDot(s) == SelectSeq(s, IsDigit)
DotPos(s) == CHOOSE i \in 1..Len(s) : s[i] = "."

\* float(s): the decimal it denotes, mantissa / 10^decimals, or ValueError
ParseFloat(s) ==
    LET t == Strip(s)
    IN  IF /\ \A i \in 1..Len(t) : IsDigit(t[i]) \/ t[i] = "."
           /\ DotCount(t) <= 1
           /\ DigitCount(t) >= 1
        THEN [ok |-> TRUE,
              mantissa |-> DigitsValue(WithoutDot(t), <<>>),
              decimals |-> IF DotCount(t) = 1 THEN Len(t) - DotPos(t) ELSE 0]
        ELSE [ok |-> FALSE, mantissa |-> <<>>, decimals |-> 0]

RECURSIVE BigDivPow10(_, _)
BigDivPow10(a, d) ==
    IF d = 0 THEN a ELSE BigDivPow10(BigDivSmall(a, 10), d - 1)

\* int(f * 1024^exp) for a float f >= 0: truncation of the product.  The
\* product of a short decimal and a power of two is either an integer that
\* the float holds exactly or at least 5^-decimals away from one, so the
\* float rounding never changes the truncated value here.
IntOfFloatTimes(f, exp) == BigDivPow10(BigShift(f.mantissa, exp), f.decimals)

----------------------------------------------------------------------------
(* ClusterBuilder.parse_memory                                             *)

\* the units dict, in its insertion order: unit -> 1024^exp
Units == << [unit |-> <<"B">>, exp |-> 0],
            [unit |-> <<"K", "B">>, exp |-> 1],
            [unit |-> <<"M", "B">>, exp |-> 2],
            [unit |-> <<"G", "B">>, exp |-> 3],
            [unit |-> <<"T", "B">>, exp |-> 4] >>

\* a fall-through that swallows the parsing error and reports 0 bytes
ParseRawOrZero(s) ==
    IF ParseInt(s).ok THEN ParseInt(s) ELSE Returned(<<>>)

\* what a string with no matching unit falls through to
ParseRaw(s) == ParseInt(s)

RECURSIVE ParseMemoryFrom(_, _)
ParseMemoryFrom(s, i) ==
    IF i > Len(Units) THEN ParseRaw(s)
    ELSE IF EndsWith(s, Units[i].unit)
    THEN LET f == ParseFloat(DropLast(s, Len(Units[i].unit)))
         IN  IF f.ok THEN Returned(IntOfFloatTimes(f, Units[i].exp))
             ELSE Raised("ValueError")
    ELSE ParseMemoryFrom(s, i + 1)

parse_memory(s) == ParseMemoryFrom(Strip(Upper(s)), 1)

----------------------------------------------------------------------------
(* Inputs of the parse_memory specification.                               *)

MaxMemLen == 4

MemAlphabet == {"1", "5", ".", " ", "B", "K", "g", "X"}

RECURSIVE StringsUpTo(_, _)
StringsUpTo(alphabet, n) ==
    IF n = 0 THEN {<<>>}
    ELSE LET shorter == StringsUpTo(alphabet, n - 1)
         IN  shorter \cup {Append(s, c) : s \in shorter, c \in alphabet}

MemExamples == { <<"1", "6", "G", "B">>, <<"5", "1", "2", "M", "B">>,
                 <<"1", "0", "2", "4">>, <<"1", "6", "g", "b">>,
                 <<"2", "T", "B">>, <<"6", "4", "k", "B">>,
                 <<"1", "0", "7", "3", "7", "4", "1", "8", "2", "4">>,
                 <<"8", "5", "8", "9", "9", "3", "4", "5", "9", "2">>,
                 <<"0", "0", "7">>, <<"a", "b", "c">> }

MemInputs == StringsUpTo(MemAlphabet, MaxMemLen) \cup MemExamples

\* the variables of the calls a specification does not make
MemIdle == mem_str = <<>> /\ mem_result = Pending
ExpandIdle == pattern = <<>> /\ registry = <<>> /\ matched = Pending
PlanIdle ==
    /\ config = <<>>
    /\ pc = "idle"
    /\ all_experts = <<>>
    /\ allocations = <<>>
    /\ plan = <<>>
    /\ total_used = <<>>
    /\ total_budget = <<>>
    /\ results = <<>>
QuantIdle ==
    /\ in_values = <<>>
    /\ in_precision = "int8"
    /\ quantized = Pending
    /\ in_min_val = 0
    /\ in_max_val = 0
    /\ scale_zp = Pending
    /\ in_quantized = <<>>
    /\ packed_out = Pending
TensorIdle == tensor = <<>> /\ described = Pending /\ measured = Pending
BuilderIdle == builder_config = <<>> /\ in_expert_id = <<>> /\ built = <<>>
OthersIdle == QuantIdle /\ TensorIdle /\ BuilderIdle

InitParseMemory ==
    /\ mem_str \in MemInputs
    /\ mem_result = Pending
    /\ ExpandIdle
    /\ PlanIdle
    /\ OthersIdle

\* one call parse_memory(mem_str)
CallParseMemory ==
    /\ mem_result = Pending
    /\ mem_result' = parse_memory(mem_str)
    /\ UNCHANGED <<mem_str, expandVars, planVars, quantVars, tensorVars,
                   builderVars>>

NextParseMemory == CallParseMemory

SpecParseMemory == InitParseMemory /\ [][NextParseMemory]_vars

----------------------------------------------------------------------------
(* ClusterBuilder.expand_expert_pattern                                    *)

RECURSIVE WithPrefix(_, _)
\* [e for e in all if e.startswith(prefix)]
WithPrefix(all, prefix) ==
    IF all = <<>> THEN <<>>
    ELSE (IF StartsWith(Head(all), prefix) THEN <<Head(all)>> ELSE <<>>)
         \o WithPrefix(Tail(all), prefix)

\* membership decided by prefix instead of equality
ContainsPrefixed(all, e) == \E i \in 1..Len(all) : StartsWith(all[i], e)

\* pattern in all_experts
Contains(all, e) == \E i \in 1..Len(all) : all[i] = e

\* a prefix that keeps the trailing '*'
PatternWhole(p) == p

\* pattern[:-1]
PatternPrefix(p) == DropLast(p, 1)

expand_expert_pattern(p, all) ==
    IF EndsWith(p, <<"*">>)
    THEN WithPrefix(all, PatternPrefix(p))
    ELSE IF Contains(all, p) THEN <<p>> ELSE <<>>

----------------------------------------------------------------------------
(* Expert ids and patterns the specifications draw from.                   *)

MathAlgebra == <<"m", "a", "t", "h", "-", "a", "l", "g", "e", "b", "r", "a">>
MathCalculus == <<"m", "a", "t", "h", "-", "c", "a", "l", "c", "u", "l", "u", "s">>
LangPython == <<"l", "a", "n", "g", "-", "p", "y", "t", "h", "o", "n">>
LangGo == <<"l", "a", "n", "g", "-", "g", "o">>
MathDash == <<"m", "a", "t", "h", "-">>
MathStar == <<"m", "a", "t", "h", "-", "*">>
LangStar == <<"l", "a", "n", "g", "-", "*">>
Star == <<"*">>
Expert0 == <<"e", "x", "p", "e", "r", "t", "-", "0">>
Expert1 == <<"e", "x", "p", "e", "r", "t", "-", "1">>
ExpertStar == <<"e", "x", "p", "e", "r", "t", "-", "*">>

MaxRegistry == 3

ExpertIdPool == {MathAlgebra, MathCalculus, LangPython, MathDash, MathStar, <<>>}
PatternPool == {MathStar, LangStar, Star, MathDash \o <<"*", "*">>,
                MathAlgebra \o Star, LangGo, LangPython, MathDash, MathAlgebra,
                <<>>}

RECURSIVE SeqsUpTo(_, _)
SeqsUpTo(S, n) ==
    IF n = 0 THEN {<<>>}
    ELSE LET shorter == SeqsUpTo(S, n - 1)
         IN  shorter \cup {Append(s, x) : s \in shorter, x \in S}

InitExpand ==
    /\ pattern \in PatternPool
    /\ registry \in SeqsUpTo(ExpertIdPool, MaxRegistry)
    /\ matched = Pending
    /\ MemIdle
    /\ PlanIdle
    /\ OthersIdle

\* one call expand_expert_pattern(pattern, registry)
CallExpand ==
    /\ matched = Pending
    /\ matched' = Returned(expand_expert_pattern(pattern, registry))
    /\ UNCHANGED <<pattern, registry, memVars, planVars, quantVars,
                   tensorVars, builderVars>>

NextExpand == CallExpand

SpecExpand == InitExpand /\ [][NextExpand]_vars

----------------------------------------------------------------------------
(* Precision, TensorSpec, ExpertTensor, ExpertBuilder                      *)

\* Precision.bytes_per_element, a float with a power-of-two denominator
bytes_per_element(p) ==
    CASE p = "int2" -> [num |-> 1, den |-> 4]
      [] p = "int4" -> [num |-> 1, den |-> 2]
      [] p = "int8" -> [num |-> 1, den |-> 1]
      [] p = "fp16" -> [num |-> 2, den |-> 1]
      [] p = "bf16" -> [num |-> 2, den |-> 1]
      [] p = "fp32" -> [num |-> 4, den |-> 1]

\* an Optional field: <<>> is None, <<v>> is the value v
None == <<>>
Some(v) == <<v>>
\* dict.get(key, default) on an Optional entry
Get(opt, default) == IF opt = None THEN default ELSE opt[1]

TensorSpec(name, shape, precision) ==
    [name |-> name, shape |-> shape, precision |-> precision,
     quantization_scale |-> None, quantization_zero_point |-> None]

RECURSIVE Product(_, _)
\* for dim in self.shape: result *= dim
Product(shape, result) ==
    IF shape = <<>> THEN result
    ELSE Product(Tail(shape), BigMulAdd(result, Head(shape), 0))

\* TensorSpec.numel
numel(t) == Product(t.shape, <<1>>)

\* a size that rounds a fraction of a byte up
size_bytes_rounded_up(t) ==
    LET bpe == bytes_per_element(t.precision)
    IN  BigDivSmall(BigMulAdd(numel(t), bpe.num, bpe.den - 1), bpe.den)

\* TensorSpec.size_bytes: int(numel * bytes_per_element)
size_bytes(t) ==
    LET bpe == bytes_per_element(t.precision)
    IN  BigDivSmall(BigMulAdd(numel(t), bpe.num, 0), bpe.den)

\* truth value of quantization_scale: None and 0.0 are false
ScaleTruthy(t) ==
    t.quantization_scale # None /\ t.quantization_scale[1].num # 0

\* TensorSpec.to_dict
to_dict(t) ==
    [name |-> t.name, shape |-> t.shape, precision |-> t.precision,
     size_bytes |-> size_bytes(t),
     quantization |->
        IF ScaleTruthy(t)
        THEN Some([scale |-> t.quantization_scale[1],
                   zero_point |-> Get(t.quantization_zero_point, None)])
        ELSE None]

UpProjSuffix == <<".", "u", "p", "_", "p", "r", "o", "j">>
DownProjSuffix == <<".", "d", "o", "w", "n", "_", "p", "r", "o", "j">>
GateProjSuffix == <<".", "g", "a", "t", "e", "_", "p", "r", "o", "j">>
RouterName == <<"r", "o", "u", "t", "e", "r", ".", "w", "e", "i", "g", "h", "t">>

\* a build whose down_proj copies the shape of up_proj
build_expert_untransposed(ec, expert_id) ==
    [expert_id |-> expert_id,
     up_proj |-> TensorSpec(expert_id \o UpProjSuffix,
                            <<ec.expert_dim, ec.hidden_dim>>, ec.expert_precision),
     down_proj |-> TensorSpec(expert_id \o DownProjSuffix,
                              <<ec.expert_dim, ec.hidden_dim>>, ec.expert_precision),
     gate_proj |-> Some(TensorSpec(expert_id \o GateProjSuffix,
                                   <<ec.expert_dim, ec.hidden_dim>>,
                                   ec.expert_precision))]

\* ExpertBuilder.build_expert
build_expert(ec, expert_id) ==
    [expert_id |-> expert_id,
     up_proj |-> TensorSpec(expert_id \o UpProjSuffix,
                            <<ec.expert_dim, ec.hidden_dim>>, ec.expert_precision),
     down_proj |-> TensorSpec(expert_id \o DownProjSuffix,
                              <<ec.hidden_dim, ec.expert_dim>>, ec.expert_precision),
     gate_proj |-> Some(TensorSpec(expert_id \o GateProjSuffix,
                                   <<ec.expert_dim, ec.hidden_dim>>,
                                   ec.expert_precision))]

\* ExpertBuilder.build_router
build_router(ec) ==
    TensorSpec(RouterName, <<ec.shared_dim, ec.total_experts>>, ec.router_precision)

\* ExpertTensor.total_bytes
total_bytes(e) ==
    LET total == BigAdd(size_bytes(e.up_proj), size_bytes(e.down_proj))
    IN  IF e.gate_proj # None
        THEN BigAdd(total, size_bytes(e.gate_proj[1]))
        ELSE total

----------------------------------------------------------------------------
(* QuantizationEngine.  The values are floats that hold integers, written  *)
(* as integers.  scale, the float nearest (max_val - min_val) / qmax, is   *)
(* kept as the pair it is the quotient of, and round(x / scale) is taken   *)
(* of the exact quotient x * qmax / (max_val - min_val); on the values the *)
(* specifications draw, the float arithmetic rounds to the same integers.  *)

\* a width counted in whole bytes: a sub-byte kind takes the 8 bits of the
\* byte it is stored in
bit_width_whole_bytes(p) ==
    CASE p = "int2" -> 8
      [] p = "int4" -> 8
      [] p = "int8" -> 8
      [] p = "fp16" -> 16
      [] p = "bf16" -> 16
      [] p = "fp32" -> 32

\* Precision.bit_width
bit_width(p) ==
    CASE p = "int2" -> 2
      [] p = "int4" -> 4
      [] p = "int8" -> 8
      [] p = "fp16" -> 16
      [] p = "bf16" -> 16
      [] p = "fp32" -> 32

\* qmax = (1 << bit_width) - 1
QMax(p) == BigSub(BigPow2(bit_width(p)), <<1>>)

\* int(round(x / scale)) for scale = span / qmax, span # 0: sign and magnitude
RoundQuotient(x, scale) ==
    [neg |-> (x < 0) # (scale.num < 0),
     mag |-> RoundHalfEven(BigMulAdd(scale.den, Abs(x), 0), Abs(scale.num))]

\* r itself: the sign of min_val / scale is kept
NotNegated(r) == r

\* 0 - r
Negated(r) == [neg |-> ~r.neg, mag |-> r.mag]

\* r + z for z >= 0
Plus(r, z) ==
    IF ~r.neg THEN [neg |-> FALSE, mag |-> BigAdd(r.mag, z)]
    ELSE IF BigGt(r.mag, z) THEN [neg |-> TRUE, mag |-> BigSub(r.mag, z)]
    ELSE [neg |-> FALSE, mag |-> BigSub(z, r.mag)]

\* max(0, r): a clamp with no upper end
ClampBelowOnly(r, qmax) ==
    IF r.neg THEN <<>>
    ELSE r.mag

\* max(0, min(qmax, r))
Clamp(r, qmax) ==
    IF r.neg THEN <<>>
    ELSE IF BigGt(r.mag, qmax) THEN qmax
    ELSE r.mag

\* QuantizationEngine.compute_scale_zp: (scale, zero_point), or the
\* ZeroDivisionError of min_val / scale when scale is 0.0
compute_scale_zp(min_val, max_val, p) ==
    LET qmax == QMax(p)
        scale == [num |-> max_val - min_val, den |-> qmax]
    IN  IF scale.num = 0 THEN Raised("ZeroDivisionError")
        ELSE Returned([scale |-> scale,
                       zero_point |->
                           Clamp(Negated(RoundQuotient(min_val, scale)), qmax)])

\* min(values), max(values)
MinOf(values) ==
    CHOOSE m \in {values[i] : i \in 1..Len(values)} :
        \A i \in 1..Len(values) : m <= values[i]
MaxOf(values) ==
    CHOOSE m \in {values[i] : i \in 1..Len(values)} :
        \A i \in 1..Len(values) : m >= values[i]

\* q = int(round(v / scale)) + zero_point; q = max(0, min(qmax, q))
QuantizeValue(v, scale, zero_point, p) ==
    Clamp(Plus(RoundQuotient(v, scale), zero_point), QMax(p))

\* a & (m - 1) for m a power of two up to 1024
LowBits(a, m) == BigLimb(a, 1) % m

RECURSIVE Int2ByteHighFirst(_, _, _)
\* a byte filled from its high end: the first value of a group at bits 6, 7
Int2ByteHighFirst(quantized_values, i, j) ==
    IF j = 4 THEN 0
    ELSE (IF i + j < Len(quantized_values)
          THEN LowBits(quantized_values[i + j + 1], 4) * Pow2(6 - j * 2)
          ELSE 0)
         + Int2ByteHighFirst(quantized_values, i, j + 1)

RECURSIVE Int2Byte(_, _, _)
\* the byte of the group at offset i: values[i + j] & 0x3 at bits 2j, 2j+1
Int2Byte(quantized_values, i, j) ==
    IF j = 4 THEN 0
    ELSE (IF i + j < Len(quantized_values)
          THEN LowBits(quantized_values[i + j + 1], 4) * Pow2(j * 2)
          ELSE 0)
         + Int2Byte(quantized_values, i, j + 1)

RECURSIVE PackInt2WholeGroups(_, _)
\* a packing of whole groups of four only: a final partial group is left out
PackInt2WholeGroups(quantized_values, i) ==
    IF i + 3 >= Len(quantized_values) THEN <<>>
    ELSE <<Int2Byte(quantized_values, i, 0)>>
         \o PackInt2WholeGroups(quantized_values, i + 4)

RECURSIVE PackInt2(_, _)
\* for i in range(0, len(values), 4): packed.append(byte)
PackInt2(quantized_values, i) ==
    IF i >= Len(quantized_values) THEN <<>>
    ELSE <<Int2Byte(quantized_values, i, 0)>> \o PackInt2(quantized_values, i + 4)

RECURSIVE PackInt4Pairs(_, _)
\* a packing of whole pairs only: an odd final value is left out
PackInt4Pairs(quantized_values, i) ==
    IF i + 1 >= Len(quantized_values) THEN <<>>
    ELSE <<LowBits(quantized_values[i + 1], 16)
           + LowBits(quantized_values[i + 2], 16) * 16>>
         \o PackInt4Pairs(quantized_values, i + 2)

RECURSIVE PackInt4(_, _)
\* for i in range(0, len(values), 2): packed.append(low | (high << 4))
PackInt4(quantized_values, i) ==
    IF i >= Len(quantized_values) THEN <<>>
    ELSE LET low == LowBits(quantized_values[i + 1], 16)
             high == IF i + 1 < Len(quantized_values)
                     THEN LowBits(quantized_values[i + 2], 16)
                     ELSE 0
         IN  <<low + high * 16>> \o PackInt4(quantized_values, i + 2)

\* bytes(values): every value has to be in range(0, 256)
PackInt8(quantized_values) ==
    IF \E i \in 1..Len(quantized_values) :
           BigGt(quantized_values[i], <<255>>)
    THEN Raised("ValueError")
    ELSE Returned([i \in 1..Len(quantized_values) |->
                      BigToInt(quantized_values[i])])

\* the IEEE 754 bit pattern of the integer v >= 0 in a binary format with
\* sig fraction bits and the given exponent bias, rounded to nearest, a tie
\* to even (v below the overflow threshold of the format)
FloatBits(v, sig, bias) ==
    IF v = <<>> THEN 0
    ELSE LET e == BigLog2(v)
             m == IF e <= sig THEN BigToInt(v) * Pow2(sig - e)
                  ELSE BigToInt(RoundHalfEven(v, Pow2(e - sig)))
         IN  (e + bias) * Pow2(sig) + (m - Pow2(sig))

\* the n bytes of bits in the byte order of the machine, little-endian
NativeBytes(bits, n) == [k \in 1..n |-> (bits \div Pow2(8 * (k - 1))) % 256]

RECURSIVE Concat(_)
Concat(seqs) == IF seqs = <<>> THEN <<>> ELSE Head(seqs) \o Concat(Tail(seqs))

\* struct.pack('e', v) for each value: an integer that rounds past the
\* largest half-precision number, 65504, raises struct.error
PackHalf(quantized_values) ==
    IF \E i \in 1..Len(quantized_values) :
           ~BigGt(BigOfInt(65520), quantized_values[i])
    THEN Raised("struct.error")
    ELSE Returned(Concat([i \in 1..Len(quantized_values) |->
                     NativeBytes(FloatBits(quantized_values[i], 10, 15), 2)]))

\* struct.pack('f', v) for each value
PackSingle(quantized_values) ==
    Returned(Concat([i \in 1..Len(quantized_values) |->
                NativeBytes(FloatBits(quantized_values[i], 23, 127), 4)]))

\* QuantizationEngine._pack_values
pack_values(quantized_values, p) ==
    CASE p = "int2" -> Returned(PackInt2(quantized_values, 0))
      [] p = "int4" -> Returned(PackInt4(quantized_values, 0))
      [] p = "int8" -> PackInt8(quantized_values)
      [] p \in {"fp16", "bf16"} -> PackHalf(quantized_values)
      [] p = "fp32" -> PackSingle(quantized_values)
      [] OTHER -> Returned(<<>>)

\* a result on no values that copies the scale 0.0 of an empty range
EmptyQuantizationOfRange ==
    [packed |-> <<>>, scale |-> [num |-> 0, den |-> <<1>>], zero_point |-> <<>>]

\* the result of quantize_tensor on no values: (b"", 1.0, 0)
EmptyQuantization ==
    [packed |-> <<>>, scale |-> [num |-> 1, den |-> <<1>>], zero_point |-> <<>>]

\* the loop of quantize_tensor: the list quantized, one integer per value
QuantizedValues(values, p, sz) ==
    [i \in 1..Len(values) |->
        QuantizeValue(values[i], sz.scale, sz.zero_point, p)]

\* quantize_tensor after its call of compute_scale_zp gave sz: the loop
\* over the values and the packing
QuantizeWith(values, p, sz) ==
    IF ~sz.ok THEN sz
    ELSE LET packed == pack_values(QuantizedValues(values, p, sz.value), p)
         IN  IF ~packed.ok THEN packed
             ELSE Returned([packed |-> packed.value,
                            scale |-> sz.value.scale,
                            zero_point |-> sz.value.zero_point])

\* QuantizationEngine.quantize_tensor: (packed, scale, zero_point), or the
\* exception that compute_scale_zp or the packing raised
quantize_tensor(values, p) ==
    IF values = <<>> THEN Returned(EmptyQuantization)
    ELSE QuantizeWith(values, p,
                      compute_scale_zp(MinOf(values), MaxOf(values), p))

----------------------------------------------------------------------------
(* Inputs and calls of the quantization specifications.                    *)

MaxValues == 4

ValuePool == {-3, -1, 0, 2, 5}

Precisions == {"int2", "int4", "int8", "fp16", "bf16", "fp32"}

InitQuantize ==
    /\ in_values \in SeqsUpTo(ValuePool, MaxValues)
    /\ in_precision \in Precisions
    /\ quantized = Pending
    /\ in_min_val = 0
    /\ in_max_val = 0
    /\ scale_zp = Pending
    /\ in_quantized = <<>>
    /\ packed_out = Pending
    /\ MemIdle
    /\ ExpandIdle
    /\ PlanIdle
    /\ TensorIdle
    /\ BuilderIdle

\* quantize_tensor(in_values, in_precision) up to the return of its call
\* compute_scale_zp(min_val, max_val, precision); on no values it returns
\* at once
CallQuantizeTensor ==
    /\ quantized = Pending
    /\ scale_zp = Pending
    /\ IF in_values = <<>>
       THEN /\ quantized' = Returned(EmptyQuantization)
            /\ UNCHANGED <<in_min_val, in_max_val, scale_zp>>
       ELSE /\ in_min_val' = MinOf(in_values)
            /\ in_max_val' = MaxOf(in_values)
            /\ scale_zp' = compute_scale_zp(in_min_val', in_max_val',
                                            in_precision)
            /\ UNCHANGED quantized
    /\ UNCHANGED <<in_values, in_precision, in_quantized, packed_out,
                   memVars, expandVars, planVars, tensorVars, builderVars>>

\* the rest of quantize_tensor; an exception of compute_scale_zp passes
\* through it
ReturnQuantizeTensor ==
    /\ quantized = Pending
    /\ scale_zp # Pending
    /\ quantized' = QuantizeWith(in_values, in_precision, scale_zp)
    /\ IF scale_zp.ok
       THEN /\ in_quantized' =
                  QuantizedValues(in_values, in_precision, scale_zp.value)
            /\ packed_out' = pack_values(in_quantized', in_precision)
       ELSE UNCHANGED <<in_quantized, packed_out>>
    /\ UNCHANGED <<in_values, in_precision, in_min_val, in_max_val, scale_zp,
                   memVars, expandVars, planVars, tensorVars, builderVars>>

NextQuantize == CallQuantizeTensor \/ ReturnQuantizeTensor

SpecQuantize == InitQuantize /\ [][NextQuantize]_vars

InitScaleZp ==
    /\ in_min_val \in ValuePool
    /\ in_max_val \in ValuePool
    /\ in_precision \in Precisions
    /\ scale_zp = Pending
    /\ in_values = <<>>
    /\ quantized = Pending
    /\ in_quantized = <<>>
    /\ packed_out = Pending
    /\ MemIdle
    /\ ExpandIdle
    /\ PlanIdle
    /\ TensorIdle
    /\ BuilderIdle

\* one call compute_scale_zp(in_min_val, in_max_val, in_precision)
CallComputeScaleZp ==
    /\ scale_zp = Pending
    /\ scale_zp' = compute_scale_zp(in_min_val, in_max_val, in_precision)
    /\ UNCHANGED <<in_values, in_precision, quantized, in_min_val, in_max_val,
                   in_quantized, packed_out,
                   memVars, expandVars, planVars, tensorVars, builderVars>>

NextScaleZp == CallComputeScaleZp

SpecScaleZp == InitScaleZp /\ [][NextScaleZp]_vars

MaxPacked == 5

\* integers handed to the packer: the 2-bit range, and 13, which is in the
\* 4-bit range only
PackPool == {0, 1, 2, 3, 13}

InitPack ==
    /\ in_quantized \in
          {[i \in 1..Len(s) |-> BigOfInt(s[i])] :
             s \in SeqsUpTo(PackPool, MaxPacked)}
    /\ in_precision \in Precisions
    /\ packed_out = Pending
    /\ in_values = <<>>
    /\ quantized = Pending
    /\ in_min_val = 0
    /\ in_max_val = 0
    /\ scale_zp = Pending
    /\ MemIdle
    /\ ExpandIdle
    /\ PlanIdle
    /\ TensorIdle
    /\ BuilderIdle

\* one call _pack_values(in_quantized, in_precision)
CallPackValues ==
    /\ packed_out = Pending
    /\ packed_out' = pack_values(in_quantized, in_precision)
    /\ UNCHANGED <<in_values, in_precision, quantized, in_min_val, in_max_val,
                   scale_zp, in_quantized,
                   memVars, expandVars, planVars, tensorVars, builderVars>>

NextPack == CallPackValues

SpecPack == InitPack /\ [][NextPack]_vars

----------------------------------------------------------------------------
(* Inputs and calls of the tensor specification.                           *)

MaxRank == 2

DimPool == {1, 2, 3, 5, 512, 2048}

\* (quantization_scale, quantization_zero_point): absent, 0.0, 0.5, -2.0, 1.0
QuantizationPool ==
    { [scale |-> None, zero_point |-> None],
      [scale |-> Some([num |-> 0, den |-> 1]), zero_point |-> Some(0)],
      [scale |-> Some([num |-> 1, den |-> 2]), zero_point |-> Some(3)],
      [scale |-> Some([num |-> -2, den |-> 1]), zero_point |-> None],
      [scale |-> Some([num |-> 1, den |-> 1]), zero_point |-> Some(0)] }

InitTensor ==
    /\ tensor \in
          {[TensorSpec(RouterName, shape, p) EXCEPT
               !.quantization_scale = q.scale,
               !.quantization_zero_point = q.zero_point] :
             shape \in SeqsUpTo(DimPool, MaxRank), p \in Precisions,
             q \in QuantizationPool}
    /\ described = Pending
    /\ measured = Pending
    /\ MemIdle
    /\ ExpandIdle
    /\ PlanIdle
    /\ QuantIdle
    /\ BuilderIdle

\* one call tensor.to_dict(), which reads tensor.size_bytes
CallToDict ==
    /\ described = Pending
    /\ described' = Returned(to_dict(tensor))
    /\ UNCHANGED <<tensor, measured, memVars, expandVars, planVars, quantVars,
                   builderVars>>

\* one read of tensor.precision.bytes_per_element and of
\* tensor.precision.bit_width
ReadPrecision ==
    /\ measured = Pending
    /\ measured' =
          Returned([bytes_per_element |-> bytes_per_element(tensor.precision),
                    bit_width |-> bit_width(tensor.precision)])
    /\ UNCHANGED <<tensor, described, memVars, expandVars, planVars,
                   quantVars, builderVars>>

NextTensor == CallToDict \/ ReadPrecision

SpecTensor == InitTensor /\ [][NextTensor]_vars

----------------------------------------------------------------------------
(* ClusterBuilder.build_allocation                                         *)

DefaultMemory == <<"8", "G", "B">>

\* a budget that falls back to 0 bytes when the memory string does not parse
MemoryBudgetOrZero(node) ==
    LET budget == parse_memory(Get(node.gpu.memory, DefaultMemory))
    IN  IF budget.ok THEN budget ELSE Returned(<<>>)

\* self.parse_memory(gpu.get("memory", "8GB"))
MemoryBudget(node) == parse_memory(Get(node.gpu.memory, DefaultMemory))

\* a registry that is not emptied between calls
LeakedAllExperts == all_experts

\* all_experts = []
FreshAllExperts == <<>>

RECURSIVE CollectDistinctExperts(_, _)
\* a registry that takes an id only the first time a category lists it
CollectDistinctExperts(categories, acc) ==
    IF categories = <<>> THEN acc
    ELSE CollectDistinctExperts(Tail(categories),
             acc \o SelectSeq(Head(categories).experts,
                              LAMBDA e : \A i \in 1..Len(acc) : acc[i] # e))

RECURSIVE CollectExperts(_, _)
\* for category, cat_config in categories.items(): all_experts.extend(...)
CollectExperts(categories, acc) ==
    IF categories = <<>> THEN acc
    ELSE CollectExperts(Tail(categories), acc \o Head(categories).experts)

\* an allocation whose experts default is one list shared by all
\* allocations: it starts with what the previous node left there
NodeAllocationSharedList(node_id, device, memory_budget) ==
    [node_id |-> node_id, device |-> device, memory_budget |-> memory_budget,
     experts |-> IF allocations = <<>> THEN <<>>
                 ELSE allocations[Len(allocations)].experts,
     memory_used |-> <<>>]

\* NodeAllocation(node_id, device, memory_budget): experts and memory_used
\* take their defaults
NodeAllocation(node_id, device, memory_budget) ==
    [node_id |-> node_id, device |-> device, memory_budget |-> memory_budget,
     experts |-> <<>>, memory_used |-> <<>>]

RECURSIVE ExpandPatternsOrLiteral(_, _, _)
\* an expansion that takes a pattern matching nothing as a literal expert id
ExpandPatternsOrLiteral(patterns, all, experts) ==
    IF patterns = <<>> THEN experts
    ELSE LET found == expand_expert_pattern(Head(patterns), all)
         IN  ExpandPatternsOrLiteral(Tail(patterns), all,
                 experts \o (IF found = <<>> THEN <<Head(patterns)>> ELSE found))

RECURSIVE ExpandPatterns(_, _, _)
\* for pattern in node["experts"]: allocation.experts.extend(matched)
ExpandPatterns(patterns, all, experts) ==
    IF patterns = <<>> THEN experts
    ELSE ExpandPatterns(Tail(patterns), all,
                        experts \o expand_expert_pattern(Head(patterns), all))

RECURSIVE SumDistinctExpertBytes(_, _, _)
\* a sum that charges an expert id once however often the list holds it
SumDistinctExpertBytes(ec, experts, used) ==
    IF experts = <<>> THEN used
    ELSE LET rest == Tail(experts)
             again == \E k \in 1..Len(rest) : rest[k] = Head(experts)
         IN  SumDistinctExpertBytes(ec, rest,
                 IF again THEN used
                 ELSE BigAdd(used, total_bytes(build_expert(ec, Head(experts)))))

RECURSIVE SumExpertBytes(_, _, _)
\* for expert_id in allocation.experts: memory_used += expert.total_bytes
SumExpertBytes(ec, experts, used) ==
    IF experts = <<>> THEN used
    ELSE SumExpertBytes(ec, Tail(experts),
                        BigAdd(used, total_bytes(build_expert(ec, Head(experts)))))

RECURSIVE FitBudget(_, _, _, _)
\* the longest prefix of experts whose bytes stay within the budget
FitBudget(ec, experts, used, budget) ==
    IF experts = <<>> THEN <<>>
    ELSE LET u == BigAdd(used, total_bytes(build_expert(ec, Head(experts))))
         IN  IF BigGt(u, budget) THEN <<>>
             ELSE <<Head(experts)>> \o FitBudget(ec, Tail(experts), u, budget)

\* a node loop that enforces the budget by truncating the expert list
AllocateExpertsWithinBudget(ec, allocation, patterns, all) ==
    LET experts == FitBudget(ec, ExpandPatterns(patterns, all, allocation.experts),
                             allocation.memory_used, allocation.memory_budget)
    IN  [allocation EXCEPT
            !.experts = experts,
            !.memory_used = SumExpertBytes(ec, experts, allocation.memory_used)]

\* the body of the node loop once the memory string has parsed
AllocateExperts(ec, allocation, patterns, all) ==
    LET experts == ExpandPatterns(patterns, all, allocation.experts)
    IN  [allocation EXCEPT
            !.experts = experts,
            !.memory_used = SumExpertBytes(ec, experts, allocation.memory_used)]

----------------------------------------------------------------------------
(* ClusterBuilder.generate_deployment_plan                                 *)

\* a / b as Python computes it for two ints: the float nearest the
\* quotient, kept as the pair it is the quotient of
TrueDiv(a, b) == [type |-> "float", num |-> a, den |-> b]
IntZero == [type |-> "int", num |-> <<>>, den |-> <<1>>]

\* the quotient without the guard on the budget
UtilizationUnguarded(used, budget) == TrueDiv(used, budget)

\* alloc.memory_used / alloc.memory_budget if alloc.memory_budget > 0 else 0
Utilization(used, budget) ==
    IF BigGt(budget, <<>>) THEN TrueDiv(used, budget) ELSE IntZero

\* the plan dict before the loop over the allocations
PlanSkeleton(ec) ==
    [model |->
        [config |-> [total_experts |-> ec.total_experts,
                     active_experts |-> ec.active_experts,
                     expert_dim |-> ec.expert_dim,
                     shared_dim |-> ec.shared_dim,
                     hidden_dim |-> ec.hidden_dim],
         quantization |->
            [expert_precision |-> ec.expert_precision,
             router_precision |-> ec.router_precision,
             bytes_per_expert_element |-> bytes_per_element(ec.expert_precision)],
         router |-> to_dict(build_router(ec))],
     cluster |-> [nodes |-> <<>>, total_memory_used |-> <<>>,
                  total_memory_budget |-> <<>>],
     experts |-> <<>>]

NodeInfo(alloc) ==
    [node_id |-> alloc.node_id,
     device |-> alloc.device,
     memory_budget_bytes |-> alloc.memory_budget,
     memory_used_bytes |-> alloc.memory_used,
     memory_utilization |-> Utilization(alloc.memory_used, alloc.memory_budget),
     expert_count |-> Len(alloc.experts),
     experts |-> alloc.experts]

ExpertDetail(ec, alloc, expert_id) ==
    LET expert == build_expert(ec, expert_id)
    IN  [id |-> expert_id,
         node |-> alloc.node_id,
         device |-> alloc.device,
         tensors |->
            [up_proj |-> to_dict(expert.up_proj),
             down_proj |-> to_dict(expert.down_proj),
             gate_proj |-> IF expert.gate_proj # None
                           THEN Some(to_dict(expert.gate_proj[1]))
                           ELSE None],
         total_bytes |-> total_bytes(expert)]

RECURSIVE FirstOccurrences(_, _)
FirstOccurrences(ids, seen) ==
    IF ids = <<>> THEN <<>>
    ELSE IF Head(ids) \in seen THEN FirstOccurrences(Tail(ids), seen)
    ELSE <<Head(ids)>> \o FirstOccurrences(Tail(ids), seen \cup {Head(ids)})

\* one detail record per expert id, however often it is assigned
ExpertDetailsOncePerId(ec, alloc) ==
    LET ids == FirstOccurrences(alloc.experts,
                                {plan.experts[j].id : j \in 1..Len(plan.experts)})
    IN  [j \in 1..Len(ids) |-> ExpertDetail(ec, alloc, ids[j])]

\* for expert_id in alloc.experts: plan["experts"].append({...})
ExpertDetails(ec, alloc) ==
    [j \in 1..Len(alloc.experts) |-> ExpertDetail(ec, alloc, alloc.experts[j])]

\* the used total fed from the budget column
AccumulateUsedFromBudget(total, alloc) == BigAdd(total, alloc.memory_budget)

\* total_used += alloc.memory_used
AccumulateUsed(total, alloc) == BigAdd(total, alloc.memory_used)
\* total_budget += alloc.memory_budget
AccumulateBudget(total, alloc) == BigAdd(total, alloc.memory_budget)

----------------------------------------------------------------------------
(* Configurations the planner specification draws from.                    *)

MaxNodes == 2
MaxRuns == 2

ExpertConfig(expert_dim, hidden_dim, expert_precision) ==
    [total_experts |-> 108, active_experts |-> 4, expert_dim |-> expert_dim,
     shared_dim |-> 1024, hidden_dim |-> hidden_dim,
     expert_precision |-> expert_precision, router_precision |-> "fp16"]

EndToEndExpertConfig == ExpertConfig(512, 2048, "int4")

ExpertConfigPool ==
    {EndToEndExpertConfig, ExpertConfig(3, 5, "int4"), ExpertConfig(2, 3, "fp32")}

Node(id, device, memory, patterns) ==
    [id |-> id, gpu |-> [device |-> device, memory |-> memory],
     experts |-> patterns]

EndToEndNode == Node(Some("n0"), Some("cuda:0"), Some(<<"1", "G", "B">>),
                     <<ExpertStar>>)

NodePool ==
    { EndToEndNode,
      Node(Some("n0"), Some("cuda:0"),
           Some(<<"1", "0", "7", "3", "7", "4", "1", "8", "2", "4">>),
           <<ExpertStar>>),
      Node(Some("n1"), Some("cuda:1"), Some(<<"1", "6", "B">>),
           <<Expert0, ExpertStar>>),
      Node(Some("n1"), None, Some(<<"0">>), <<Star>>),
      Node(None, None, None, <<Expert1>>),
      Node(Some("n0"), Some("cuda:0"), Some(<<"0", "b">>), <<>>),
      Node(Some("n1"), Some("cuda:1"), Some(<<"2", "0", "4", "8">>), <<LangGo>>),
      Node(Some("n0"), None, Some(<<" ", "6", "3", " ">>),
           <<MathStar, Expert1>>) }

EndToEndCategories == << [name |-> "core", experts |-> <<Expert0, Expert1>>] >>

CategoriesPool ==
    { EndToEndCategories,
      << [name |-> "math", experts |-> <<Expert0, MathAlgebra>>],
         [name |-> "extra", experts |-> <<Expert1, Expert0>>] >>,
      <<>> }

EndToEndConfig ==
    [nodes |-> <<EndToEndNode>>, categories |-> EndToEndCategories,
     expert_config |-> EndToEndExpertConfig]

Init ==
    /\ config \in [nodes : SeqsUpTo(NodePool, MaxNodes),
                   categories : CategoriesPool,
                   expert_config : ExpertConfigPool]
    /\ pc = "idle"
    /\ all_experts = <<>>
    /\ allocations = <<>>
    /\ plan = <<>>
    /\ total_used = <<>>
    /\ total_budget = <<>>
    /\ results = <<>>
    /\ MemIdle
    /\ ExpandIdle
    /\ OthersIdle

----------------------------------------------------------------------------
(* An ExpertBuilder and its calls of build_expert.                         *)

MaxBuilds == 2

BuilderConfigPool ==
    {ExpertConfig(expert_dim, hidden_dim, p) :
        expert_dim \in DimPool, hidden_dim \in DimPool, p \in Precisions}

InitBuilder ==
    /\ builder_config \in BuilderConfigPool
    /\ in_expert_id \in ExpertIdPool \cup {Expert0}
    /\ built = <<>>
    /\ MemIdle
    /\ ExpandIdle
    /\ PlanIdle
    /\ QuantIdle
    /\ TensorIdle

\* one call build_expert(in_expert_id) on the builder
BuildExpert ==
    /\ Len(built) < MaxBuilds
    /\ built' = Append(built, build_expert(builder_config, in_expert_id))
    /\ UNCHANGED <<builder_config, in_expert_id, memVars, expandVars, planVars,
                   quantVars, tensorVars>>

NextBuilder == BuildExpert

SpecBuilder == InitBuilder /\ [][NextBuilder]_vars

----------------------------------------------------------------------------
(* One call of generate_deployment_plan, a loop iteration at a time.       *)

\* the call enters build_allocation: the registry is collected
Call ==
    /\ pc = "idle"
    /\ Len(results) < MaxRuns
    /\ all_experts' = CollectExperts(config.categories, FreshAllExperts)
    /\ allocations' = <<>>
    /\ pc' = "allocating"
    /\ UNCHANGED <<config, plan, total_used, total_budget, results,
                   memVars, expandVars,
                   quantVars, tensorVars, builderVars>>

\* one iteration of the loop over cluster["nodes"]; a memory string that
\* does not parse raises out of build_allocation and of the whole call
AllocateNode ==
    /\ pc = "allocating"
    /\ Len(allocations) < Len(config.nodes)
    /\ LET node == config.nodes[Len(allocations) + 1]
           budget == MemoryBudget(node)
       IN  IF budget.ok
           THEN /\ allocations' =
                       Append(allocations,
                              AllocateExperts(config.expert_config,
                                  NodeAllocation(Get(node.id, "unknown"),
                                                 Get(node.gpu.device, "cpu"),
                                                 budget.value),
                                  node.experts, all_experts))
                /\ UNCHANGED <<pc, results>>
           ELSE /\ results' = Append(results, Raised(budget.error))
                /\ pc' = "idle"
                /\ UNCHANGED allocations
    /\ UNCHANGED <<config, all_experts, plan, total_used, total_budget,
                   memVars, expandVars,
                   quantVars, tensorVars, builderVars>>

\* build_allocation has returned: the router, the plan dict, the totals
BeginPlan ==
    /\ pc = "allocating"
    /\ Len(allocations) = Len(config.nodes)
    /\ plan' = PlanSkeleton(config.expert_config)
    /\ total_used' = <<>>
    /\ total_budget' = <<>>
    /\ pc' = "emitting"
    /\ UNCHANGED <<config, all_experts, allocations, results,
                   memVars, expandVars,
                   quantVars, tensorVars, builderVars>>

\* one iteration of the loop over allocations
EmitNode ==
    /\ pc = "emitting"
    /\ Len(plan.cluster.nodes) < Len(allocations)
    /\ LET alloc == allocations[Len(plan.cluster.nodes) + 1]
       IN  /\ plan' = [plan EXCEPT
                          !.cluster.nodes = Append(@, NodeInfo(alloc)),
                          !.experts = @ \o ExpertDetails(config.expert_config, alloc)]
           /\ total_used' = AccumulateUsed(total_used, alloc)
           /\ total_budget' = AccumulateBudget(total_budget, alloc)
    /\ UNCHANGED <<config, pc, all_experts, allocations, results,
                   memVars, expandVars,
                   quantVars, tensorVars, builderVars>>

\* the totals are stored and the plan is returned
ReturnPlan ==
    /\ pc = "emitting"
    /\ Len(plan.cluster.nodes) = Len(allocations)
    /\ plan' = [plan EXCEPT !.cluster.total_memory_used = total_used,
                            !.cluster.total_memory_budget = total_budget]
    /\ results' = Append(results, Returned(plan'))
    /\ pc' = "idle"
    /\ UNCHANGED <<config, all_experts, allocations, total_used, total_budget,
                   memVars, expandVars,
                   quantVars, tensorVars, builderVars>>

Next == Call \/ AllocateNode \/ BeginPlan \/ EmitNode \/ ReturnPlan

Spec == Init /\ [][Next]_vars

----------------------------------------------------------------------------
(* Claims about parse_memory (specification SpecParseMemory).              *)

Called == mem_result # Pending

\* s is <digits><unit> for the i-th unit, the unit in any letter case
UnitForm(s, i) ==
    LET u == Units[i].unit
    IN  /\ Len(s) > Len(u)
        /\ Upper(SubSeq(s, Len(s) - Len(u) + 1, Len(s))) = u
        /\ AllDigits(DropLast(s, Len(u)))

\* C1: parse_memory of <number><unit>, unit one of B, KB, MB, GB, TB in any
\* letter case, returns number * 1024^k (k = 0..4); parse_memory("16GB") is
\* 17179869184 = 16 * 1024^3 and parse_memory("512MB") is 536870912 =
\* 512 * 1024^2.
C1_ParseMemoryUnits ==
    Called =>
        /\ \A i \in 1..Len(Units) :
              UnitForm(mem_str, i) =>
                 mem_result =
                    Returned(BigShift(
                        DigitsValue(DropLast(mem_str, Len(Units[i].unit)), <<>>),
                        Units[i].exp))
        /\ mem_str = <<"1", "6", "G", "B">> => mem_result = Returned(<<0, 0, 0, 16>>)
        /\ mem_str = <<"5", "1", "2", "M", "B">> => mem_result = Returned(<<0, 0, 512>>)

\* none of the units ends the string, in any letter case
NoUnitSuffix(s) ==
    \A i \in 1..Len(Units) : ~EndsWith(Upper(Strip(s)), Units[i].unit)

\* the string is a decimal number: digits with at most one decimal point
LooksNumeric(s) ==
    /\ \E i \in 1..Len(s) : IsDigit(s[i])
    /\ \A i \in 1..Len(s) : IsDigit(s[i]) \/ s[i] = "."
    /\ \A i, j \in 1..Len(s) : s[i] = "." /\ s[j] = "." => i = j

RECURSIVE BigToDecimal(_)
\* the decimal digits of a, most significant first, <<>> for 0
BigToDecimal(a) ==
    IF a = <<>> THEN <<>>
    ELSE BigToDecimal(BigDivSmall(a, 10)) \o <<Digits[BigModSmall(a, 10) + 1]>>

RECURSIVE DropLeadingZeros(_)
DropLeadingZeros(s) ==
    IF s # <<>> /\ s[1] = "0" THEN DropLeadingZeros(Tail(s)) ELSE s

\* C2: with no recognized unit suffix, parse_memory returns the byte count a
\* decimal integer denotes (parse_memory("1024") is 1024) and fails with a
\* parsing error, returning nothing, on non-numeric input.
C2_RawByteCount ==
    (Called /\ NoUnitSuffix(mem_str)) =>
        /\ AllDigits(mem_str) =>
              /\ mem_result.ok
              /\ BigToDecimal(mem_result.value) = DropLeadingZeros(mem_str)
        /\ ~LooksNumeric(Strip(mem_str)) => mem_result = Raised("ValueError")
        /\ mem_str = <<"1", "0", "2", "4">> => mem_result = Returned(<<0, 1>>)

C2_Witness ==
    /\ mem_str = <<"1", "0", "2", "4">>
    /\ mem_result = Returned(BigOfInt(1024))

----------------------------------------------------------------------------
(* Claims about expand_expert_pattern (specification SpecExpand).          *)

Expanded == matched # Pending

\* e begins with prefix, character by character
HasPrefix(e, prefix) ==
    \A k \in 1..Len(prefix) : k <= Len(e) /\ e[k] = prefix[k]

\* the registry positions a wildcard pattern selects
WildcardPositions ==
    {i \in 1..Len(registry) :
        HasPrefix(registry[i], SubSeq(pattern, 1, Len(pattern) - 1))}

\* the j-th smallest element of a set of positions
NthPosition(S, j) == CHOOSE i \in S : Cardinality({k \in S : k <= i}) = j

IsWildcard(p) == p # <<>> /\ p[Len(p)] = "*"

\* C4: for a pattern ending in '*', expand_expert_pattern returns exactly the
\* registry entries that start with the text before the '*', in registry
\* order and with the registry's multiplicity; "math-*" on [math-algebra,
\* math-calculus, lang-python] gives [math-algebra, math-calculus]; the
\* pattern "*" returns the whole registry.
C4_WildcardExpansion ==
    (Expanded /\ IsWildcard(pattern)) =>
        /\ matched.ok
        /\ Len(matched.value) = Cardinality(WildcardPositions)
        /\ \A j \in 1..Len(matched.value) :
              matched.value[j] = registry[NthPosition(WildcardPositions, j)]
        /\ pattern = Star => matched.value = registry
        /\ (pattern = MathStar /\ registry = <<MathAlgebra, MathCalculus, LangPython>>)
              => matched.value = <<MathAlgebra, MathCalculus>>

C4_Witness ==
    /\ pattern = MathStar
    /\ registry = <<MathAlgebra, LangPython, MathAlgebra>>
    /\ matched = Returned(<<MathAlgebra, MathAlgebra>>)

\* C5: for a pattern not ending in '*', expand_expert_pattern returns
\* [pattern] when the pattern equals a registry entry and [] otherwise; it
\* never returns an id that is not in the registry.
C5_ExactExpansion ==
    (Expanded /\ ~IsWildcard(pattern)) =>
        /\ matched.ok
        /\ (\E i \in 1..Len(registry) : registry[i] = pattern)
              => matched.value = <<pattern>>
        /\ (\A i \in 1..Len(registry) : registry[i] # pattern)
              => matched.value = <<>>
        /\ \A j \in 1..Len(matched.value) :
              \E i \in 1..Len(registry) : registry[i] = matched.value[j]

C5_Witness ==
    /\ pattern = LangPython
    /\ registry = <<MathAlgebra, LangPython, LangPython>>
    /\ matched = Returned(<<LangPython>>)

----------------------------------------------------------------------------
(* Claims about generate_deployment_plan (specification Spec).             *)

\* the plans the finished calls returned
ReturnedPlans == {results[r].value : r \in {q \in 1..Len(results) : results[q].ok}}

NodeIndices(p) == 1..Len(p.cluster.nodes)

\* C3: for one node of budget "1GB" and pattern "expert-*", registry
\* [expert-0, expert-1], expertDim 512, hiddenDim 2048 and int4 experts,
\* generate_deployment_plan returns a plan: each expert's total_bytes is
\* 1572864, the node's memory_used_bytes is 3145728, its
\* memory_budget_bytes is 1073741824, its utilization 3145728/1073741824.
C3_EndToEnd ==
    (config = EndToEndConfig /\ Len(results) >= 1) =>
        /\ results[1].ok
        /\ LET p == results[1].value
           IN  /\ Len(p.experts) = 2
               /\ \A j \in 1..Len(p.experts) :
                     p.experts[j].total_bytes = BigOfInt(1572864)
               /\ Len(p.cluster.nodes) = 1
               /\ p.cluster.nodes[1].memory_used_bytes = BigOfInt(3145728)
               /\ p.cluster.nodes[1].memory_budget_bytes = BigOfInt(1073741824)
               /\ p.cluster.nodes[1].memory_utilization =
                     TrueDiv(BigOfInt(3145728), BigOfInt(1073741824))

RECURSIVE SumUsed(_)
\* the sum of memory_used_bytes over the node records, last record first
SumUsed(nodes) ==
    IF nodes = <<>> THEN <<>>
    ELSE BigAdd(nodes[Len(nodes)].memory_used_bytes,
                SumUsed(SubSeq(nodes, 1, Len(nodes) - 1)))

RECURSIVE SumBudget(_)
\* the sum of memory_budget_bytes over the node records, last record first
SumBudget(nodes) ==
    IF nodes = <<>> THEN <<>>
    ELSE BigAdd(nodes[Len(nodes)].memory_budget_bytes,
                SumBudget(SubSeq(nodes, 1, Len(nodes) - 1)))

\* C6: in every returned plan, cluster.total_memory_used is the sum of
\* memory_used_bytes over the node records and cluster.total_memory_budget
\* the sum of memory_budget_bytes.
C6_Aggregates ==
    \A p \in ReturnedPlans :
        /\ p.cluster.total_memory_used = SumUsed(p.cluster.nodes)
        /\ p.cluster.total_memory_budget = SumBudget(p.cluster.nodes)

C6_Witness ==
    \E p \in ReturnedPlans :
        /\ Len(p.cluster.nodes) = 2
        /\ \A i \in NodeIndices(p) :
              /\ p.cluster.nodes[i].memory_used_bytes # <<>>
              /\ p.cluster.nodes[i].memory_budget_bytes # <<>>
        /\ p.cluster.nodes[1].memory_used_bytes # p.cluster.nodes[1].memory_budget_bytes
        /\ BigGt(p.cluster.total_memory_used, p.cluster.nodes[1].memory_used_bytes)

\* C7: two calls of generate_deployment_plan on the same configuration give
\* identical results; nothing a planning pass leaves behind changes the
\* next one.
C7_Determinism ==
    \A i, j \in 1..Len(results) : results[i] = results[j]

C7_Witness ==
    /\ Len(results) >= 2
    /\ results[2].ok
    /\ Len(results[2].value.experts) >= 2
    /\ all_experts # <<>>

\* the expert list node i gets when nothing is dropped
AllMatched(i) ==
    ExpandPatterns(config.nodes[i].experts,
                   CollectExperts(config.categories, <<>>), <<>>)

MemoryParses(i) ==
    parse_memory(Get(config.nodes[i].gpu.memory, DefaultMemory)).ok

\* u > 1.0
ExceedsOne(u) == u.type = "float" /\ BigGt(u.num, u.den)

\* the bytes of one expert: every expert has the same shapes and precision
BytesPerExpert == total_bytes(build_expert(config.expert_config, <<>>))

\* being over budget raises no error: a call raises only when the memory
\* string of some node does not parse
NoErrorWhenParsed ==
    (\E r \in 1..Len(results) : ~results[r].ok)
        => \E i \in 1..Len(config.nodes) : ~MemoryParses(i)

\* node record n of a plan, for node i of the configuration, holds every
\* matched expert, charged in full
KeepsEveryMatch(n, i) ==
    /\ n.experts = AllMatched(i)
    /\ n.expert_count = Len(n.experts)
    /\ n.memory_used_bytes = BigMulAdd(BytesPerExpert, Len(n.experts), 0)

\* C8 as stated: no budget enforcement; every matched expert is kept, no
\* error is raised, and a node whose summed bytes exceed its budget is
\* reported with memory_used_bytes > memory_budget_bytes and utilization
\* above 1.0.
C8_OverBudgetAboveOne ==
    /\ NoErrorWhenParsed
    /\ \A p \in ReturnedPlans :
          /\ Len(p.cluster.nodes) = Len(config.nodes)
          /\ \A i \in NodeIndices(p) :
                LET n == p.cluster.nodes[i]
                IN  /\ KeepsEveryMatch(n, i)
                    /\ BigGt(BigMulAdd(BytesPerExpert, Len(n.experts), 0),
                             n.memory_budget_bytes)
                       => /\ BigGt(n.memory_used_bytes, n.memory_budget_bytes)
                          /\ ExceedsOne(n.memory_utilization)

\* C8 amended: as above, but the utilization of an over-budget node is the
\* quotient used / budget, above 1, only when the budget is positive; an
\* over-budget node of budget 0 is reported with utilization 0.
C8_NoBudgetEnforcement ==
    /\ NoErrorWhenParsed
    /\ \A p \in ReturnedPlans :
          /\ Len(p.cluster.nodes) = Len(config.nodes)
          /\ \A i \in NodeIndices(p) :
                LET n == p.cluster.nodes[i]
                IN  /\ KeepsEveryMatch(n, i)
                    /\ BigGt(BigMulAdd(BytesPerExpert, Len(n.experts), 0),
                             n.memory_budget_bytes)
                       => /\ BigGt(n.memory_used_bytes, n.memory_budget_bytes)
                          /\ IF n.memory_budget_bytes # <<>>
                             THEN /\ n.memory_utilization =
                                        TrueDiv(n.memory_used_bytes,
                                                n.memory_budget_bytes)
                                  /\ ExceedsOne(n.memory_utilization)
                             ELSE n.memory_utilization = IntZero

C8_Witness ==
    \E p \in ReturnedPlans : \E i \in NodeIndices(p) :
        LET n == p.cluster.nodes[i]
        IN  /\ n.memory_budget_bytes # <<>>
            /\ BigGt(n.memory_used_bytes, n.memory_budget_bytes)
            /\ n.expert_count >= 3
            /\ ExceedsOne(n.memory_utilization)

\* C9: in every node record, memory_utilization is memory_used_bytes /
\* memory_budget_bytes when the budget is positive and 0 when the budget is
\* 0, whatever memory_used is.
C9_Utilization ==
    \A p \in ReturnedPlans : \A i \in NodeIndices(p) :
        LET n == p.cluster.nodes[i]
        IN  IF n.memory_budget_bytes = <<>>
            THEN n.memory_utilization = IntZero
            ELSE /\ n.memory_utilization.type = "float"
                 /\ n.memory_utilization.num = n.memory_used_bytes
                 /\ n.memory_utilization.den = n.memory_budget_bytes

C9_Witness ==
    \E p \in ReturnedPlans : \E i \in NodeIndices(p) :
        /\ p.cluster.nodes[i].memory_budget_bytes = <<>>
        /\ p.cluster.nodes[i].memory_used_bytes # <<>>
        /\ p.cluster.nodes[i].memory_utilization = IntZero

RECURSIVE ExpertsBefore(_, _)
\* how many expert assignments the node records before record i hold
ExpertsBefore(nodes, i) ==
    IF i <= 1 THEN 0
    ELSE ExpertsBefore(nodes, i - 1) + Len(nodes[i - 1].experts)

\* the experts list of p holds, node record after node record, one detail
\* record per entry of the record's expert list, carrying that node
OneDetailPerAssignment(p) ==
    /\ Len(p.experts) = ExpertsBefore(p.cluster.nodes, Len(p.cluster.nodes) + 1)
    /\ \A i \in NodeIndices(p) :
          /\ p.cluster.nodes[i].node_id = Get(config.nodes[i].id, "unknown")
          /\ p.cluster.nodes[i].expert_count = Len(p.cluster.nodes[i].experts)
          /\ \A j \in 1..Len(p.cluster.nodes[i].experts) :
                LET d == p.experts[ExpertsBefore(p.cluster.nodes, i) + j]
                IN  /\ d.id = p.cluster.nodes[i].experts[j]
                    /\ d.node = p.cluster.nodes[i].node_id

\* C10: the plan's experts list is the concatenation, over the nodes in
\* configuration order, of one detail record per entry of the node's expert
\* list in list order; its length is the sum of the nodes' expert_count and
\* an id assigned twice yields two records, each carrying its node.  It
\* holds of the plan while it is being assembled and of every plan returned.
C10_DetailPerAssignment ==
    /\ pc = "emitting" => OneDetailPerAssignment(plan)
    /\ \A p \in ReturnedPlans :
          /\ Len(p.cluster.nodes) = Len(config.nodes)
          /\ OneDetailPerAssignment(p)

C10_Witness ==
    \E p \in ReturnedPlans :
        /\ Len(p.cluster.nodes) = 2
        /\ p.cluster.nodes[1].node_id # p.cluster.nodes[2].node_id
        /\ \E j \in 1..Len(p.cluster.nodes[1].experts) :
              \E k \in 1..Len(p.cluster.nodes[2].experts) :
                 /\ k # 1
                 /\ p.cluster.nodes[1].experts[j] = p.cluster.nodes[2].experts[k]
                 /\ p.cluster.nodes[2].experts[1] = p.cluster.nodes[2].experts[k]

\* node i of the configuration has no gpu.memory entry
NoMemoryEntry(i) == config.nodes[i].gpu.memory = None

\* 8 * 1024^3 = 8589934592
EightGiB == <<0, 0, 0, 8>>

\* C11: a cluster node whose configuration has no gpu.memory entry receives
\* memory_budget = parse of the default string "8GB", 8 * 1024^3 =
\* 8589934592 bytes, and planning proceeds for that node: when every memory
\* string that is written out parses, the call returns a plan, and the
\* record of each node without an entry carries that budget.
C11_DefaultBudget ==
    /\ \A i \in 1..Len(allocations) :
          (pc # "idle" /\ NoMemoryEntry(i))
              => allocations[i].memory_budget = EightGiB
    /\ \A r \in 1..Len(results) :
          (\A i \in 1..Len(config.nodes) : NoMemoryEntry(i) \/ MemoryParses(i))
              => /\ results[r].ok
                 /\ \A i \in 1..Len(config.nodes) :
                       NoMemoryEntry(i) =>
                          results[r].value.cluster.nodes[i].memory_budget_bytes
                              = EightGiB

----------------------------------------------------------------------------
(* Claims about the quantization engine (specification SpecQuantize).      *)

Quantized == quantized # Pending

IntKinds == {"int2", "int4", "int8"}

\* the i-th integer unpacked from a packed buffer of an integer kind
Unpacked(packed, p, i) ==
    CASE p = "int2" -> (packed[(i - 1) \div 4 + 1] \div Pow2(2 * ((i - 1) % 4))) % 4
      [] p = "int4" -> (packed[(i - 1) \div 2 + 1] \div Pow2(4 * ((i - 1) % 2))) % 16
      [] p = "int8" -> packed[i]

\* how many values a byte of an integer kind holds
PerByte(p) == CASE p = "int2" -> 4 [] p = "int4" -> 2 [] p = "int8" -> 1

\* |(q - zero_point) * scale - v| <= scale / 2 for scale = num / den
WithinHalfScale(q, v, scale, zero_point) ==
    2 * Abs((q - zero_point) * scale.num - v * scale.den) <= Abs(scale.num)

\* C12: for every non-empty value sequence and every integer precision kind
\* (2-, 4-, 8-bit), quantize_tensor returns (packed, scale, zeroPoint) such
\* that, with q_i the i-th integer unpacked from packed, (q_i - zeroPoint) *
\* scale differs from the i-th value by at most scale / 2, for every i, also
\* when the values are all positive or all negative.  Stated here of the
\* sequences whose minimum and maximum differ; equal bounds are the subject
\* of C13.
C12_RoundTrip ==
    (/\ Quantized
     /\ in_values # <<>>
     /\ MinOf(in_values) # MaxOf(in_values)
     /\ in_precision \in IntKinds) =>
        /\ quantized.ok
        /\ Len(quantized.value.packed) * PerByte(in_precision) >= Len(in_values)
        /\ \A i \in 1..Len(in_values) :
              WithinHalfScale(
                  Unpacked(quantized.value.packed, in_precision, i),
                  in_values[i],
                  [num |-> quantized.value.scale.num,
                   den |-> BigToInt(quantized.value.scale.den)],
                  BigToInt(quantized.value.zero_point))

\* scale = num / den is above 0
ScalePositive(scale) == scale.num > 0 /\ scale.den # <<>>

\* every value of the sequence is the same
AllEqual(values) == \A i, j \in 1..Len(values) : values[i] = values[j]

\* C13: with min == max, compute_scale_zp does not fail with a division by
\* zero, and neither does quantize_tensor on a non-empty sequence whose
\* values are all equal (a single value included); they return a (scale,
\* zeroPoint) result with scale > 0 or with all quantized values equal to
\* qmin = 0.
C13_DegenerateRange ==
    /\ (scale_zp # Pending /\ in_min_val = in_max_val) =>
          /\ scale_zp.ok
          /\ \/ ScalePositive(scale_zp.value.scale)
             \/ scale_zp.value.zero_point = <<>>
    /\ (Quantized /\ in_values # <<>> /\ AllEqual(in_values)) =>
          /\ quantized.ok
          /\ \/ ScalePositive(quantized.value.scale)
             \/ \A i \in 1..Len(quantized.value.packed) :
                   quantized.value.packed[i] = 0

\* C14: for every non-empty value sequence of length n with distinct minimum
\* and maximum, quantize_tensor returns a buffer of length ceil(n / 4) for
\* 2-bit, ceil(n / 2) for 4-bit and n for 8-bit precision: the least number
\* of bytes that holds n values.
C14_PackingSize ==
    (/\ Quantized
     /\ in_values # <<>>
     /\ MinOf(in_values) # MaxOf(in_values)
     /\ in_precision \in IntKinds) =>
        /\ quantized.ok
        /\ LET n == Len(in_values)
               bytes == Len(quantized.value.packed)
           IN  /\ bytes * PerByte(in_precision) >= n
               /\ (bytes - 1) * PerByte(in_precision) < n
               /\ in_precision = "int8" => bytes = n

C14_Witness ==
    /\ Quantized
    /\ in_values = <<-3, 5, 2>>
    /\ in_precision = "int4"
    /\ quantized.ok
    /\ Len(quantized.value.packed) = 2

\* C16: on an empty value sequence quantize_tensor returns, for every
\* precision kind, the sentinel (empty byte buffer, scale 1.0, zeroPoint 0)
\* and raises no error.
C16_EmptySentinel ==
    (Quantized /\ in_values = <<>>) =>
        /\ quantized.ok
        /\ quantized.value.packed = <<>>
        /\ quantized.value.scale.num = 1
        /\ quantized.value.scale.den = BigOfInt(1)
        /\ quantized.value.zero_point = BigOfInt(0)
        /\ scale_zp = Pending

C16_Witness ==
    /\ Quantized
    /\ in_values = <<>>
    /\ in_precision = "fp32"
    /\ quantized.ok

----------------------------------------------------------------------------
(* Claims about TensorSpec (specification SpecTensor).                     *)

Described == described # Pending

RECURSIVE ShapeProduct(_)
\* product(shape), last dimension first
ShapeProduct(shape) ==
    IF shape = <<>> THEN BigOfInt(1)
    ELSE BigMulAdd(ShapeProduct(SubSeq(shape, 1, Len(shape) - 1)),
                   shape[Len(shape)], 0)

\* bytesPerElement in quarters of a byte
QuarterBytes(p) ==
    CASE p = "int2" -> 1
      [] p = "int4" -> 2
      [] p = "int8" -> 4
      [] p \in {"fp16", "bf16"} -> 8
      [] p = "fp32" -> 16

\* a <= b
BigLe(a, b) == ~BigGt(a, b)

\* size = floor(quarters / 4)
IsFloorOfQuarters(size, quarters) ==
    /\ BigLe(BigMulAdd(size, 4, 0), quarters)
    /\ BigGt(BigMulAdd(size, 4, 4), quarters)

\* C15: for every TensorSpec, size_bytes == floor(product(shape) *
\* bytesPerElement); shape (512, 2048) at 4-bit precision gives 524288, and
\* a tensor with an odd element count at a sub-byte precision rounds down.
C15_SizeBytes ==
    Described =>
        /\ described.ok
        /\ IsFloorOfQuarters(described.value.size_bytes,
                             BigMulAdd(ShapeProduct(tensor.shape),
                                       QuarterBytes(tensor.precision), 0))
        /\ (tensor.shape = <<512, 2048>> /\ tensor.precision = "int4")
              => described.value.size_bytes = <<0, 512>>
        /\ (tensor.shape = <<3, 5>> /\ tensor.precision = "int4")
              => described.value.size_bytes = <<7>>
        /\ (tensor.shape = <<3>> /\ tensor.precision = "int2")
              => described.value.size_bytes = <<>>

C15_Witness ==
    /\ Described
    /\ tensor.shape = <<3, 5>>
    /\ tensor.precision = "int4"
    /\ described.value.size_bytes = BigOfInt(7)

\* C20: to_dict emits a quantization object {scale, zero_point} if and only
\* if the TensorSpec's scale is non-null: it is absent when the scale is
\* null and present, with the recorded scale and zero point, for every
\* recorded non-null scale value.
C20_QuantizationPresence ==
    Described =>
        /\ described.ok
        /\ tensor.quantization_scale = None
              => described.value.quantization = None
        /\ tensor.quantization_scale # None
              => /\ described.value.quantization # None
                 /\ described.value.quantization[1].scale
                        = tensor.quantization_scale[1]

----------------------------------------------------------------------------
(* Claims about failures of the planning pass (specification Spec).        *)

\* the pattern selects no entry of the registry
MatchesNothing(p, all) ==
    IF IsWildcard(p)
    THEN \A k \in 1..Len(all) : ~HasPrefix(all[k], SubSeq(p, 1, Len(p) - 1))
    ELSE \A k \in 1..Len(all) : all[k] # p

\* no pattern of node i selects an entry of the registry
AllMatchNothing(i) ==
    \A k \in 1..Len(config.nodes[i].experts) :
        MatchesNothing(config.nodes[i].experts[k],
                       CollectExperts(config.categories, <<>>))

\* C17: once every node's memory string has parsed, allocation cannot fail:
\* for any registry and any pattern lists build_allocation completes, and a
\* pattern that matches nothing is not an error but contributes zero
\* experts, so a node whose patterns all match nothing ends with an empty
\* expert list and memory_used == 0.
C17_AllocationCannotFail ==
    /\ (\E r \in 1..Len(results) : ~results[r].ok)
          => \E i \in 1..Len(config.nodes) : ~MemoryParses(i)
    /\ \A i \in 1..Len(allocations) :
          AllMatchNothing(i) =>
              /\ allocations[i].experts = <<>>
              /\ allocations[i].memory_used = BigOfInt(0)
    /\ \A p \in ReturnedPlans : \A i \in NodeIndices(p) :
          AllMatchNothing(i) =>
              /\ p.cluster.nodes[i].experts = <<>>
              /\ p.cluster.nodes[i].expert_count = 0
              /\ p.cluster.nodes[i].memory_used_bytes = BigOfInt(0)

C17_Witness ==
    \E p \in ReturnedPlans :
        /\ Len(p.cluster.nodes) = 2
        /\ config.nodes[1].experts # <<>>
        /\ AllMatchNothing(1)
        /\ p.cluster.nodes[1].experts = <<>>
        /\ p.cluster.nodes[2].experts # <<>>
        /\ p.cluster.total_memory_used = p.cluster.nodes[2].memory_used_bytes

\* C18: a memory-string parsing failure on any node (first, middle or last
\* in configuration order) stops the whole planning pass:
\* generate_deployment_plan returns no plan at all, never a partial plan
\* holding the records of the nodes processed before the failure.
C18_NoPartialPlan ==
    /\ \A r \in 1..Len(results) :
          results[r].ok =>
              /\ \A i \in 1..Len(config.nodes) : MemoryParses(i)
              /\ Len(results[r].value.cluster.nodes) = Len(config.nodes)
    /\ pc = "emitting" => Len(allocations) = Len(config.nodes)
    /\ (Len(results) >= 1 /\ ~results[Len(results)].ok /\ pc = "idle")
          => /\ Len(allocations) < Len(config.nodes)
             /\ ~MemoryParses(Len(allocations) + 1)

C18_Witness ==
    /\ Len(config.nodes) = 2
    /\ Len(results) >= 1
    /\ results[1] = Raised("ValueError")
    /\ pc = "idle"
    /\ Len(allocations) = 1
    /\ allocations[1].experts # <<>>

----------------------------------------------------------------------------
(* Claims about ExpertBuilder (specification SpecBuilder).                 *)

\* the tensor is named "<id>.<projection>" and has the given shape, the
\* configuration's expert precision
IsProjection(t, projection, shape) ==
    /\ t.name = in_expert_id \o <<".">> \o projection
    /\ t.shape = shape
    /\ t.precision = builder_config.expert_precision

\* C19: build_expert(expertId) returns an ExpertTensor whose up_proj has
\* shape (expertDim, hiddenDim), down_proj has shape (hiddenDim, expertDim)
\* and gate_proj has shape (expertDim, hiddenDim), all three present, all
\* with the configuration's expert precision, named "<expertId>.up_proj",
\* "<expertId>.down_proj", "<expertId>.gate_proj"; two calls with the same
\* id on the same configuration return equal specs.
C19_BuildExpert ==
    /\ \A k \in 1..Len(built) :
          /\ built[k].expert_id = in_expert_id
          /\ IsProjection(built[k].up_proj,
                          <<"u", "p", "_", "p", "r", "o", "j">>,
                          <<builder_config.expert_dim, builder_config.hidden_dim>>)
          /\ IsProjection(built[k].down_proj,
                          <<"d", "o", "w", "n", "_", "p", "r", "o", "j">>,
                          <<builder_config.hidden_dim, builder_config.expert_dim>>)
          /\ built[k].gate_proj # None
          /\ IsProjection(built[k].gate_proj[1],
                          <<"g", "a", "t", "e", "_", "p", "r", "o", "j">>,
                          <<builder_config.expert_dim, builder_config.hidden_dim>>)
    /\ \A j, k \in 1..Len(built) : built[j] = built[k]

C19_Witness ==
    /\ Len(built) = 2
    /\ in_expert_id = MathAlgebra
    /\ builder_config.expert_dim = 512
    /\ builder_config.hidden_dim = 2048
    /\ built[2].down_proj.shape = <<2048, 512>>
    /\ built[2].up_proj.shape = <<512, 2048>>

----------------------------------------------------------------------------
(* Precision kinds: bytes per element against bit width.                   *)

Measured == measured.ok

\* C21: for every precision kind, bytes_per_element * 8 equals bit_width
\* exactly: int2 0.25 and 2, int4 0.5 and 4, int8 1 and 8, fp16 2 and 16,
\* bf16 2 and 16, fp32 4 and 32.
C21_BytesTimesEightIsBitWidth ==
    Measured =>
       measured.value.bytes_per_element.num * 8
          = measured.value.bit_width * measured.value.bytes_per_element.den

C21_Witness ==
    /\ Measured
    /\ tensor.precision = "int2"
    /\ measured.value.bytes_per_element = [num |-> 1, den |-> 4]
    /\ measured.value.bit_width = 2

----------------------------------------------------------------------------
(* build_allocation: what each node is charged and what it holds.          *)

\* floor(expertDim * hiddenDim * bytesPerElement), the bytes of one projection
ProjectionBytes ==
    (config.expert_config.expert_dim * config.expert_config.hidden_dim
        * QuarterBytes(config.expert_config.expert_precision)) \div 4

HasRepeatedExpert(experts) ==
    \E j, k \in 1..Len(experts) : j < k /\ experts[j] = experts[k]

\* C22: after build_allocation, each node's memory_used equals the sum of
\* the total bytes of the experts in its list, counted with multiplicity:
\* len(experts) * 3 * floor(expertDim * hiddenDim * bytesPerElement).
C22_MemoryUsedWithMultiplicity ==
    \A k \in 1..Len(allocations) :
       allocations[k].memory_used
          = BigMulAdd(BigOfInt(ProjectionBytes),
                      3 * Len(allocations[k].experts), 0)

C22_Witness ==
    /\ pc = "emitting"
    /\ config.expert_config.expert_dim = 3
    /\ config.expert_config.hidden_dim = 5
    /\ config.expert_config.expert_precision = "int4"
    /\ \E k \in 1..Len(allocations) :
          /\ allocations[k].experts = <<Expert0, Expert0, Expert1>>
          /\ HasRepeatedExpert(allocations[k].experts)
          /\ allocations[k].memory_used = <<63>>

\* what one pattern selects from the registry all: for a wildcard the
\* entries with its prefix, in order; otherwise the pattern itself when the
\* registry holds it
MatchesOf(p, all) ==
    IF IsWildcard(p)
    THEN SelectSeq(all, LAMBDA e : HasPrefix(e, SubSeq(p, 1, Len(p) - 1)))
    ELSE IF \E i \in 1..Len(all) : all[i] = p THEN <<p>> ELSE <<>>

\* the expansions of the patterns, one after the other
OwnExpansions(patterns, all) ==
    Concat([j \in 1..Len(patterns) |-> MatchesOf(patterns[j], all)])

\* C23: a node's expert list is the in-order concatenation of the
\* expansions of its own patterns against the registry, duplicates kept
\* when patterns overlap; each node starts from its own fresh empty list,
\* so nothing of another node's list appears in it.
C23_OwnPatternsOnly ==
    \A k \in 1..Len(allocations) :
       allocations[k].experts
          = OwnExpansions(config.nodes[k].experts, all_experts)

C23_Witness ==
    /\ Len(allocations) = 2
    /\ config.nodes[1].experts = <<Expert0, ExpertStar>>
    /\ allocations[1].experts = <<Expert0, Expert0, Expert1>>
    /\ config.nodes[2].experts = <<Star>>
    /\ allocations[2].experts = <<Expert0, Expert1>>

\* the expert lists of the categories, one after the other in declared order
DeclaredRegistry ==
    Concat([c \in 1..Len(config.categories) |-> config.categories[c].experts])

\* how often the list holds the id e
Occurrences(e, list) == Cardinality({i \in 1..Len(list) : list[i] = e})

\* C24: the registry is the concatenation of the categories' expert lists
\* in declared category order, with no deduplication: an id listed in two
\* categories appears twice, and a wildcard that matches it returns it once
\* per occurrence.
C24_RegistryKeepsDuplicates ==
    pc # "idle" =>
       /\ all_experts = DeclaredRegistry
       /\ \A k \in 1..Len(allocations) :
             LET patterns == config.nodes[k].experts
             IN  (Len(patterns) = 1 /\ IsWildcard(patterns[1])) =>
                    \A i \in 1..Len(DeclaredRegistry) :
                       LET e == DeclaredRegistry[i]
                       IN  Occurrences(e, allocations[k].experts)
                             = IF HasPrefix(e, SubSeq(patterns[1], 1,
                                                      Len(patterns[1]) - 1))
                               THEN Occurrences(e, DeclaredRegistry)
                               ELSE 0

C24_Witness ==
    /\ pc = "emitting"
    /\ Len(config.categories) = 2
    /\ all_experts = <<Expert0, MathAlgebra, Expert1, Expert0>>
    /\ \E k \in 1..Len(allocations) :
          /\ config.nodes[k].experts = <<ExpertStar>>
          /\ allocations[k].experts = <<Expert0, Expert1, Expert0>>

----------------------------------------------------------------------------
(* Claims about the packer (specifications SpecPack and SpecQuantize).     *)

Packed == packed_out # Pending

\* the bits [w * slot, w * slot + w) of a byte
BitField(byte, w, slot) == (byte \div Pow2(w * slot)) % Pow2(w)

\* C25: for the sub-byte kinds of bit width w in {2, 4}, with k = 8 / w
\* values per byte, value i (from 0) is stored in byte floor(i / k) at bit
\* offset w * (i mod k) from the least significant bit; the padding slots of
\* a final partial byte are zero; and extracting the bit field returns the
\* original value for every value in [0, 2^w - 1].
C25_SubByteLayout ==
    (Packed /\ in_precision \in {"int2", "int4"}) =>
       /\ packed_out.ok
       /\ LET w == IF in_precision = "int2" THEN 2 ELSE 4
              k == 8 \div w
              n == Len(in_quantized)
              bytes == packed_out.value
          IN  /\ Len(bytes) = (n + k - 1) \div k
              /\ \A i \in 0..(n - 1) :
                    BigGt(BigOfInt(Pow2(w)), in_quantized[i + 1]) =>
                       BitField(bytes[i \div k + 1], w, i % k)
                          = BigToInt(in_quantized[i + 1])
              /\ \A i \in n..(k * Len(bytes) - 1) :
                    BitField(bytes[i \div k + 1], w, i % k) = 0
              /\ \A b \in 1..Len(bytes) : bytes[b] \in 0..255

\* five 2-bit values 1, 2, 3, 0, 2: 1 | 2 << 2 | 3 << 4 | 0 << 6 = 57, and
\* a second byte with the value 2 and three slots of padding
C25_Witness ==
    /\ Packed
    /\ in_precision = "int2"
    /\ in_quantized = <<<<1>>, <<2>>, <<3>>, <<>>, <<2>>>>
    /\ packed_out = Returned(<<57, 2>>)

C25_WitnessInt4 ==
    /\ Packed
    /\ in_precision = "int4"
    /\ in_quantized = <<<<1>>, <<13>>, <<2>>>>
    /\ packed_out = Returned(<<209, 2>>)

\* 2^bitWidth - 1 of each kind, written out: 3, 15, 255, 65535, 4294967295
\* (the last in limbs of 1024: 1023 + 1023 * 1024 + 1023 * 1024^2 + 3 * 1024^3)
LargestCode(p) ==
    CASE p = "int2" -> <<3>>
      [] p = "int4" -> <<15>>
      [] p = "int8" -> <<255>>
      [] p \in {"fp16", "bf16"} -> <<1023, 63>>
      [] p = "fp32" -> <<1023, 1023, 1023, 3>>

\* a is the limb sequence of an integer >= 0
IsNatural(a) ==
    /\ \A l \in 1..Len(a) : a[l] \in 0..(Kilo - 1)
    /\ a # <<>> => a[Len(a)] # 0

\* quantize_tensor got as far as its call of the packer
HandedToPacker == Quantized /\ scale_zp.ok

\* C26: for every non-empty value sequence with distinct minimum and maximum
\* and every precision kind, each integer quantize_tensor hands to the packer
\* lies in [0, 2^bitWidth - 1], one integer per value.
C26_HandedValuesInRange ==
    (/\ Quantized
     /\ in_values # <<>>
     /\ MinOf(in_values) # MaxOf(in_values)) =>
        /\ HandedToPacker
        /\ Len(in_quantized) = Len(in_values)
        /\ \A i \in 1..Len(in_quantized) :
              /\ IsNatural(in_quantized[i])
              /\ BigLe(in_quantized[i], LargestCode(in_precision))

\* all-positive values: round(5 / 0.2) + 0 = 25 is brought down to 15 and
\* round(2 / 0.2) = 10 is kept
C26_Witness ==
    /\ HandedToPacker
    /\ in_values = <<2, 5>>
    /\ in_precision = "int4"
    /\ scale_zp.value.zero_point = <<>>
    /\ in_quantized = <<<<10>>, <<15>>>>

----------------------------------------------------------------------------
(* Claims about compute_scale_zp (specification SpecScaleZp).              *)

ScaleZpReturned == scale_zp # Pending

\* |a - b| of two integers >= 0
BigDistance(a, b) == IF BigGt(a, b) THEN BigSub(a, b) ELSE BigSub(b, a)

\* z is t = -min_val * qmax / span rounded to the nearest integer, a tie to
\* the even one, and clamped into [0, qmax]; span > 0.  For min_val >= 0,
\* t <= 0 and the clamp gives 0.  For min_val < 0, compared in doubled
\* numerators: z = qmax when t >= qmax + 1/2, and otherwise |t - z| <= 1/2
\* with z even when t lies halfway.
IsClampedRounding(z, min_val, span, qmax) ==
    IF min_val >= 0 THEN z = <<>>
    ELSE LET t2 == BigMulAdd(qmax, 2 * (-min_val), 0)
             z2 == BigMulAdd(z, 2 * span, 0)
             d == BigDistance(t2, z2)
         IN  /\ IsNatural(z)
             /\ BigLe(z, qmax)
             /\ \/ z = qmax /\ BigLe(BigAdd(z2, BigOfInt(span)), t2)
                \/ /\ BigLe(d, BigOfInt(span))
                   /\ d = BigOfInt(span) => BigLimb(z, 1) % 2 = 0

\* C27: for every min < max and every precision kind, compute_scale_zp
\* returns scale = (max - min) / (2^bitWidth - 1) and zeroPoint =
\* round(-min / scale) clamped into [0, 2^bitWidth - 1], also when min > 0 or
\* max < 0.
C27_ScaleAndZeroPoint ==
    (ScaleZpReturned /\ in_min_val < in_max_val) =>
       /\ scale_zp.ok
       /\ scale_zp.value.scale.num = in_max_val - in_min_val
       /\ scale_zp.value.scale.den = LargestCode(in_precision)
       /\ IsClampedRounding(scale_zp.value.zero_point, in_min_val,
                            in_max_val - in_min_val,
                            LargestCode(in_precision))

\* max < 0: round(3 / scale) is above 2^32 - 1 and the zero point is 2^32 - 1
C27_Witness ==
    /\ ScaleZpReturned
    /\ in_min_val = -3
    /\ in_max_val = -1
    /\ in_precision = "fp32"
    /\ scale_zp.ok
    /\ scale_zp.value.scale = [num |-> 2, den |-> <<1023, 1023, 1023, 3>>]
    /\ scale_zp.value.zero_point = <<1023, 1023, 1023, 3>>

\* min < 0 < max: round(1 / 0.2) = 5, inside the range
C27_WitnessInside ==
    /\ ScaleZpReturned
    /\ in_min_val = -1
    /\ in_max_val = 2
    /\ in_precision = "int4"
    /\ scale_zp.ok
    /\ scale_zp.value.zero_point = <<5>>

----------------------------------------------------------------------------
(* Claims about the float kinds.                                           *)

FloatKinds == {"fp16", "bf16", "fp32"}

\* the bytes one value of a float kind is packed into
BytesPerValue(p) == IF p = "fp32" THEN 4 ELSE 2

\* C28: for the float kinds, quantize_tensor on every non-empty value
\* sequence with distinct minimum and maximum succeeds and returns exactly
\* 2 bytes per value for fp16 and bf16 and 4 bytes per value for fp32: the
\* packing routine of the kind encodes every integer of [0, 2^bitWidth - 1]
\* the quantizer hands to it.
C28_FloatKindsEncodable ==
    (/\ Quantized
     /\ in_values # <<>>
     /\ MinOf(in_values) # MaxOf(in_values)
     /\ in_precision \in FloatKinds) =>
        /\ packed_out.ok
        /\ quantized.ok
        /\ Len(quantized.value.packed)
              = BytesPerValue(in_precision) * Len(in_values)

\* integers to tell two 16-bit layouts apart: small ones, 1000 and 1001
\* (where half precision keeps every integer and a truncated single does
\* not), and the two sides of the half-precision overflow threshold
HalfPool == {<<>>, <<1>>, <<3>>, <<13>>, <<1000>>, <<1001>>,
             <<1007, 63>>, <<1008, 63>>}

\* C29: fp16 and bf16 are packed with different bit layouts: _pack_values
\* uses a distinct encoding routine per kind, so there is an input value
\* sequence whose packed bytes under the two kinds differ.
C29_DistinctHalfLayouts ==
    \E vs \in {in_quantized} \cup {<<v>> : v \in HalfPool}
               \cup {<<v, w>> : v, w \in HalfPool} :
       pack_values(vs, "fp16") # pack_values(vs, "bf16")

----------------------------------------------------------------------------
(* Planner byte sizing against the packed size.                            *)

\* size_bytes of a tensor with n elements of the precision handed to the
\* packer
PlannedBytes(n) == size_bytes(TensorSpec(RouterName, <<n>>, in_precision))

PackedIntKind ==
    Packed /\ in_precision \in IntKinds /\ Len(in_quantized) >= 1

\* C30 as stated: for every integer precision kind and every element count
\* n >= 1, size_bytes of a tensor with n elements equals the length of the
\* buffer packed for n values, also when n is not divisible by the number of
\* values per byte.
C30_SizeBytesIsPackedLength ==
    PackedIntKind =>
       /\ packed_out.ok
       /\ PlannedBytes(Len(in_quantized)) = BigOfInt(Len(packed_out.value))

\* C30 as amended: the buffer packed for n values has ceil(n / k) bytes for
\* k values per byte, and size_bytes is floor(n / k): the two are equal when
\* k divides n, and size_bytes is one byte less otherwise.
C30_SizeBytesFloorsPackedCeils ==
    PackedIntKind =>
       /\ packed_out.ok
       /\ LET n == Len(in_quantized)
              k == PerByte(in_precision)
              bytes == Len(packed_out.value)
          IN  /\ bytes = (n + k - 1) \div k
              /\ IF n % k = 0
                 THEN PlannedBytes(n) = BigOfInt(bytes)
                 ELSE BigAdd(PlannedBytes(n), <<1>>) = BigOfInt(bytes)

\* three 4-bit values: 2 bytes packed, int(3 * 0.5) = 1 byte planned
C30_Witness ==
    /\ PackedIntKind
    /\ in_precision = "int4"
    /\ Len(in_quantized) = 3
    /\ Len(packed_out.value) = 2
    /\ PlannedBytes(3) = <<1>>

====
